---------------------------- MODULE Spec2Model ----------------------------
(***************************************************************************)
(* The interactive session state machine of cmdk-rs and its asynchronous   *)
(* query pipeline: the UI loop of run_interactive_mode, the key handlers   *)
(* of App, the worker thread spawned by start_query, the result channel,   *)
(* and the session / prompt-history / last-result files.                   *)
(*                                                                         *)
(* Text is a sequence of tokens.  A token is one character the user can    *)
(* type, or one literal of the program's format strings ("## User:",      *)
(* "## Assistant:", a line of the preamble, ...).  " " and "\n" are the   *)
(* only whitespace tokens.  An optional value is a sequence of length 0    *)
(* (None) or 1 (Some(x)); an absent file is None.                          *)
(***************************************************************************)
EXTENDS Integers, Sequences, FiniteSets, TLC

VARIABLES
    app,          \* struct App (app.rs 70-108), a record of its fields
    env,          \* the files under ~/.command-k, their age, and PATH
    workers,      \* the worker threads in flight: [id, prompt]
    spawned,      \* number of worker threads spawned so far
    pc,           \* the UI thread in run_interactive_mode:
                  \*   "top", "poll", "done" (returned Ok), "failed" (returned
                  \*   Err or panicked, the terminal is not restored)
    fault,        \* the error that ended the process ("none" while it runs)
    executed,     \* the commands handed to sh -c after teardown
    queue,        \* key events waiting in the terminal's input queue
    nkeys,        \* number of key events that have arrived so far
    empty_polls,  \* number of polls that found the result channel empty
    probe         \* the call of a function on its own: [fn, args, ret]
                  \*   (NoCall while the interactive session runs)

vars == <<app, env, workers, spawned, pc, fault, executed, queue, nkeys,
          empty_polls, probe>>

-----------------------------------------------------------------------------
(* Bounds of the model *)

MaxKeys == 7
MaxQueue == 1
MaxQueries == 2
MaxInput == 1
MaxEmptyPolls == 1
\* functions called on their own: lines of a history log, the limit of
\* get_recent_prompts, keys pressed in a row in the settings menu
MaxLines == 3
MaxLimit == 10
MaxNav == 2
\* dispatches of the sidecar-file protocol in one process
MaxDispatch == 2

-----------------------------------------------------------------------------
(* Options and text *)

None == <<>>
Some(x) == <<x>>
IsSome(o) == Len(o) = 1
Unwrap(o) == o[1]

IsWs(t) == t \in {" ", "\n"}

\* char::len_utf8
ByteLen(c) == IF c = "U+00E9" THEN 2 ELSE 1

RECURSIVE StrLen(_)
\* String::len: the length in bytes
StrLen(s) == IF s = <<>> THEN 0 ELSE ByteLen(Head(s)) + StrLen(Tail(s))

RECURSIVE TrimStart(_)
TrimStart(s) ==
    IF s = <<>> THEN <<>>
    ELSE IF IsWs(Head(s)) THEN TrimStart(Tail(s)) ELSE s

RECURSIVE TrimEnd(_)
TrimEnd(s) ==
    IF s = <<>> THEN <<>>
    ELSE IF IsWs(s[Len(s)]) THEN TrimEnd(SubSeq(s, 1, Len(s) - 1)) ELSE s

\* str::trim
Trim(s) == TrimEnd(TrimStart(s))

RECURSIVE SplitNl(_)
\* str::split('\n'): the pieces between the "\n" tokens
SplitNl(s) ==
    IF \A i \in 1..Len(s) : s[i] # "\n" THEN <<s>>
    ELSE LET i == CHOOSE j \in 1..Len(s) :
                      s[j] = "\n" /\ \A k \in 1..(j - 1) : s[k] # "\n"
         IN <<SubSeq(s, 1, i - 1)>> \o SplitNl(SubSeq(s, i + 1, Len(s)))

\* str::lines: split at "\n", a final empty piece is dropped
Lines(s) ==
    LET p == SplitNl(s)
    IN IF p[Len(p)] = <<>> THEN SubSeq(p, 1, Len(p) - 1) ELSE p

\* str::contains
Contains(s, sub) ==
    \E i \in 0..(Len(s) - Len(sub)) : SubSeq(s, i + 1, i + Len(sub)) = sub

RECURSIVE CountToken(_, _)
\* str::matches(t).count() for a one-token pattern
CountToken(s, t) ==
    IF s = <<>> THEN 0
    ELSE (IF Head(s) = t THEN 1 ELSE 0) + CountToken(Tail(s), t)

-----------------------------------------------------------------------------
(* settings.rs *)

PrivacyKeys ==
    <<"send_terminal_content", "send_shell_history", "send_git_status",
      "send_working_dir", "send_env_var_names", "send_shell_type",
      "send_terminal_size", "send_current_process">>

PrivacyKeySet == {PrivacyKeys[i] : i \in 1..Len(PrivacyKeys)}

DefaultSettings ==
    [k \in PrivacyKeySet \cup {"ai_provider", "custom_provider_cmd"} |->
        IF k = "ai_provider" THEN "auto"
        ELSE IF k = "custom_provider_cmd" THEN "" ELSE "true"]

is_enabled(s, key) == s[key] = "true"

toggle_setting(s, key) ==
    [s EXCEPT ![key] = IF s[key] = "true" THEN "false" ELSE "true"]

RECURSIVE SetFirst(_, _, _)
\* the first n privacy settings set to v, as the loops of Enable all and
\* Disable all do one set_setting after the other
SetFirst(s, n, v) ==
    IF n = 0 THEN s ELSE [SetFirst(s, n - 1, v) EXCEPT ![PrivacyKeys[n]] = v]

-----------------------------------------------------------------------------
(* provider.rs *)

\* Result<String, String>, and Panic for a thread that died in run_query
Ok(t) == [kind |-> "Ok", text |-> t]
Err(t) == [kind |-> "Err", text |-> t]
Panic == [kind |-> "Panic", text |-> <<>>]

command_exists(p, cmd) == cmd \in p

Resolved(name, cmd) == [ok |-> TRUE, provider |-> name, cmd |-> cmd, text |-> <<>>]
Unresolved(msg) == [ok |-> FALSE, provider |-> "", cmd |-> "", text |-> msg]

\* auto-detection preferring codex
get_current_provider_CodexFirst(s, p) ==
    LET setting == s["ai_provider"]
    IN CASE setting = "claude" ->
                IF command_exists(p, "claude") THEN Resolved("Claude", "")
                ELSE Unresolved(<<"claude not found in PATH">>)
         [] setting = "codex" ->
                IF command_exists(p, "codex") THEN Resolved("Codex", "")
                ELSE Unresolved(<<"codex not found in PATH">>)
         [] setting = "custom" ->
                IF s["custom_provider_cmd"] = ""
                THEN Unresolved(<<"custom_provider_cmd not set">>)
                ELSE Resolved("Custom", s["custom_provider_cmd"])
         [] setting = "mock" -> Resolved("Mock", "")
         [] OTHER ->
                IF command_exists(p, "codex") THEN Resolved("Codex", "")
                ELSE IF command_exists(p, "claude") THEN Resolved("Claude", "")
                ELSE Unresolved(<<"No AI CLI found (install claude or codex)">>)

\* an explicit tool that is missing replaced by the one that is present
get_current_provider_FallsBack(s, p) ==
    LET setting == s["ai_provider"]
    IN CASE setting = "custom" ->
                IF s["custom_provider_cmd"] = ""
                THEN Unresolved(<<"custom_provider_cmd not set">>)
                ELSE Resolved("Custom", s["custom_provider_cmd"])
         [] setting = "mock" -> Resolved("Mock", "")
         [] setting = "codex" /\ command_exists(p, "codex") ->
                Resolved("Codex", "")
         [] OTHER ->
                IF command_exists(p, "claude") THEN Resolved("Claude", "")
                ELSE IF command_exists(p, "codex") THEN Resolved("Codex", "")
                ELSE Unresolved(<<"No AI CLI found (install claude or codex)">>)

get_current_provider(s, p) ==
    LET setting == s["ai_provider"]
    IN CASE setting = "claude" ->
                IF command_exists(p, "claude") THEN Resolved("Claude", "")
                ELSE Unresolved(<<"claude not found in PATH">>)
         [] setting = "codex" ->
                IF command_exists(p, "codex") THEN Resolved("Codex", "")
                ELSE Unresolved(<<"codex not found in PATH">>)
         [] setting = "custom" ->
                IF s["custom_provider_cmd"] = ""
                THEN Unresolved(<<"custom_provider_cmd not set">>)
                ELSE Resolved("Custom", s["custom_provider_cmd"])
         [] setting = "mock" -> Resolved("Mock", "")
         [] OTHER ->
                IF command_exists(p, "claude") THEN Resolved("Claude", "")
                ELSE IF command_exists(p, "codex") THEN Resolved("Codex", "")
                ELSE Unresolved(<<"No AI CLI found (install claude or codex)">>)

\* Display for Provider
ProviderDisplay(name) == IF name = "Mock" THEN "Mock (test)" ELSE name

get_current_provider_name(s, p) ==
    LET r == get_current_provider(s, p)
    IN IF r.ok
       THEN IF s["ai_provider"] = "auto"
            THEN <<ProviderDisplay(r.provider), " (auto)">>
            ELSE <<ProviderDisplay(r.provider)>>
       ELSE <<"None">>

\* What a child process can leave behind: its exit status, its output and
\* error streams, and (codex -o) its output file.
ToolStdout == {<<"ls", "\n">>, <<"\n">>}
ToolStderr == {<<"boom", "\n">>}

\* the exit status not looked at
PipeResult_IgnoresStatus(prefix, success, stdout, stderr) == Ok(Trim(stdout))

\* The outcome of run_claude_query and of run_custom_query for the exit
\* status and the captured streams of the child.
PipeResult(prefix, success, stdout, stderr) ==
    IF ~success THEN Err(<<prefix, " ">> \o stderr) ELSE Ok(Trim(stdout))

run_claude_query ==
    {Err(<<"Failed to spawn claude process">>)}
    \cup {PipeResult("Claude error:", st, o, e) :
            st \in BOOLEAN, o \in ToolStdout, e \in ToolStderr}

\* a missing output file read as an empty one
CodexResult_MissingFileIsEmpty(success, file) ==
    LET response == IF IsSome(file) THEN Trim(Unwrap(file)) ELSE <<>>
    IN IF ~success /\ response = <<>> THEN Err(<<"Codex error">>)
       ELSE Ok(response)

\* the exit status not looked at
CodexResult_IgnoresStatus(success, file) ==
    IF IsSome(file) THEN Ok(Trim(Unwrap(file)))
    ELSE Err(<<"Codex did not produce output">>)

\* The outcome of run_codex_query for an exit status and an output file.
CodexResult(success, file) ==
    IF IsSome(file)
    THEN LET response == Trim(Unwrap(file))
         IN IF ~success /\ response = <<>> THEN Err(<<"Codex error">>)
            ELSE Ok(response)
    ELSE Err(<<"Codex did not produce output">>)

\* Panic: output_file.to_str().unwrap() on a temp dir that is not UTF-8
run_codex_query ==
    {Panic, Err(<<"Failed to spawn codex process">>)}
    \cup {CodexResult(st, f) :
            st \in BOOLEAN, f \in {None} \cup {Some(o) : o \in ToolStdout}}

run_custom_query(cmd) ==
    IF cmd = "" THEN {Err(<<"Empty custom command">>)}
    ELSE {Err(<<"Failed to spawn custom command:", " ", cmd>>)}
         \cup {PipeResult("Custom command error:", st, o, e) :
                 st \in BOOLEAN, o \in ToolStdout, e \in ToolStderr}

run_mock_query(prompt) ==
    LET ls == Lines(prompt)
        last == IF ls = <<>> THEN <<"empty">> ELSE ls[Len(ls)]
    IN Ok(<<"echo 'Mock response for:", " ">> \o last \o <<"'">>)

\* the provider resolved from the default setting, not from the settings file
run_query_DefaultProvider(prompt, s, p) ==
    LET r == get_current_provider(DefaultSettings, p)
    IN IF ~r.ok THEN {Err(r.text)}
       ELSE CASE r.provider = "Claude" -> run_claude_query
              [] r.provider = "Codex" -> run_codex_query
              [] r.provider = "Custom" -> run_custom_query(r.cmd)
              [] OTHER -> {run_mock_query(prompt)}

\* The results run_query can return, and Panic when the thread dies in it
run_query(prompt, s, p) ==
    LET r == get_current_provider(s, p)
    IN IF ~r.ok THEN {Err(r.text)}
       ELSE CASE r.provider = "Claude" -> run_claude_query
              [] r.provider = "Codex" -> run_codex_query
              [] r.provider = "Custom" -> run_custom_query(r.cmd)
              [] OTHER -> {run_mock_query(prompt)}

Preamble ==
    <<"You are a terminal command assistant. Output ONLY the exact command to run.",
      "\n", "\n", "CRITICAL RULES:", "\n",
      "- Output ONLY the command itself - no shell prompts, no $, no explanation",
      "\n", "- No markdown code blocks - just the raw command", "\n",
      "- Single command only (use && or ; for multiple)", "\n",
      "- If asked for explanation, then explain - otherwise just the command",
      "\n", "\n">>

\* the Previous Conversation block written for an empty history too
build_full_prompt_BlockForEmpty(user_query, context, history) ==
    Preamble \o context
    \o (IF IsSome(history)
        THEN <<"\n", "## Previous Conversation:", "\n">> \o Unwrap(history)
        ELSE <<>>)
    \o <<"\n", "## User:", " ">> \o user_query \o <<"\n">>

build_full_prompt(user_query, context, history) ==
    Preamble \o context
    \o (IF IsSome(history) /\ Unwrap(history) # <<>>
        THEN <<"\n", "## Previous Conversation:", "\n">> \o Unwrap(history)
        ELSE <<>>)
    \o <<"\n", "## User:", " ">> \o user_query \o <<"\n">>

-----------------------------------------------------------------------------
(* context.rs: the environment has a shell, a working directory, a terminal, *)
(* a git repository and a shell history                                      *)

\* a section written whatever its flag
Section_Always(s, key, text) == text

Section(s, key, text) == IF is_enabled(s, key) THEN text ELSE <<>>

gather_context(s) ==
    <<"## Terminal Context", "\n", "\n">>
    \o Section(s, "send_shell_type", <<"**Shell:** zsh", "\n">>)
    \o Section(s, "send_working_dir", <<"**Working Directory:** /work", "\n">>)
    \o Section(s, "send_terminal_size", <<"**Terminal Size:** 80x24", "\n">>)
    \o Section(s, "send_env_var_names",
               <<"\n", "### Environment Variables (names only)", "\n", "<fence>",
                 "\n", "HOME PATH SHELL", "\n", "<fence>", "\n">>)
    \o Section(s, "send_git_status",
               <<"\n", "### Git Status", "\n", "Branch: main", "\n">>)
    \o Section(s, "send_shell_history",
               <<"\n", "### Recent Shell History", "\n", "<fence>", "\n", "ls",
                 "\n", "<fence>", "\n">>)

RECURSIVE JoinNl(_)
\* [String]::join("\n")
JoinNl(ls) ==
    IF ls = <<>> THEN <<>>
    ELSE IF Len(ls) = 1 THEN ls[1]
    ELSE ls[1] \o <<"\n">> \o JoinNl(Tail(ls))

gather_context_display(s) ==
    JoinNl(Section(s, "send_shell_type", <<<<"Shell: zsh">>>>)
           \o Section(s, "send_working_dir", <<<<"Working Directory: /work">>>>)
           \o Section(s, "send_terminal_size", <<<<"Terminal Size: 80x24">>>>)
           \o Section(s, "send_git_status",
                      <<<<>>, <<"Git Status:">>, <<"  ", "Branch: main">>>>)
           \o Section(s, "send_env_var_names",
                      <<<<"Environment Variables: 3 names">>>>)
           \o Section(s, "send_shell_history",
                      <<<<"Shell History: last 20 commands">>>>))

-----------------------------------------------------------------------------
(* session.rs *)

SESSION_TIMEOUT == 3600

\* the cleanup that finds no transcript stale
cleanup_stale_session_NeverStale(f, age) == f

\* cleanup_stale_session: the file left by it (remove_file is taken to succeed;
\* the code ignores its error)
cleanup_stale_session(f, age) ==
    IF IsSome(f) /\ age > SESSION_TIMEOUT THEN None ELSE f

\* get_session_history: the history it returns (after its cleanup)
get_session_history(f, age) ==
    LET g == cleanup_stale_session(f, age)
    IN IF IsSome(g)
       THEN IF Trim(Unwrap(g)) = <<>> THEN None ELSE g
       ELSE None

get_session_turn_count(f, age) ==
    LET h == get_session_history(f, age)
    IN IF IsSome(h) THEN CountToken(Unwrap(h), "## User:") ELSE 0

\* the turn written over the turns stored before
append_to_session_Overwrites(f, user_message, response) ==
    <<"## User:", " ">> \o user_message \o <<"\n", "\n">>
    \o <<"## Assistant:", "\n">> \o response \o <<"\n", "\n">>

\* append_to_session: the new content of the session file
append_to_session(f, user_message, response) ==
    (IF IsSome(f) THEN Unwrap(f) ELSE <<>>)
    \o <<"## User:", " ">> \o user_message \o <<"\n", "\n">>
    \o <<"## Assistant:", "\n">> \o response \o <<"\n", "\n">>

\* the session file left in place
clear_session_KeepsFile(f) == f

\* clear_session: the session file it leaves
clear_session(f) == None

\* add_to_prompt_history: the new content of the history file
add_to_prompt_history(h, prompt) ==
    (IF IsSome(h) THEN Unwrap(h) ELSE <<>>) \o prompt \o <<"\n">>

RECURSIVE Reverse(_)
Reverse(s) == IF s = <<>> THEN <<>> ELSE Reverse(Tail(s)) \o <<Head(s)>>

\* the filter without the set of seen lines
FilterSeen_NoDedup(ls, seen) == SelectSeq(ls, LAMBDA l : Trim(l) # <<>>)

RECURSIVE FilterSeen(_, _)
\* the filter of get_recent_prompts: a line passes when its trimmed text is
\* not empty and was not seen before
FilterSeen(ls, seen) ==
    IF ls = <<>> THEN <<>>
    ELSE LET trimmed == Trim(Head(ls))
         IN IF trimmed = <<>> \/ trimmed \in seen
            THEN FilterSeen(Tail(ls), seen)
            ELSE <<Head(ls)>> \o FilterSeen(Tail(ls), seen \cup {trimmed})

\* take(limit) left out
Take_All(s, n) == s

Take(s, n) == SubSeq(s, 1, IF Len(s) < n THEN Len(s) ELSE n)

get_recent_prompts(h, limit) ==
    IF ~IsSome(h) THEN <<>>
    ELSE Take(FilterSeen(Reverse(Lines(Unwrap(h))), {}), limit)


-----------------------------------------------------------------------------
(* events.rs *)

KeyEv(code) == [code |-> code, ch |-> "", ctrl |-> FALSE]
CharKey(c) == [code |-> "Char", ch |-> c, ctrl |-> FALSE]
CtrlKey(c) == [code |-> "Char", ch |-> c, ctrl |-> TRUE]

Act(a) == [a |-> a, ch |-> ""]
CharAct(c) == [a |-> "Char", ch |-> c]

\* the arms of both conversions that follow the arms for keys with a
\* meaning of their own
EditAction(key) ==
    CASE key.code = "Char" -> CharAct(key.ch)
      [] key.code \in {"Backspace", "Delete", "Home", "End", "Left", "Right"} ->
            Act(key.code)
      [] OTHER -> Act("None")

key_to_action(key) ==
    IF key.ctrl /\ key.code = "Char" /\ key.ch = "c" THEN Act("Quit")
    ELSE CASE (key.code = "Up" \/ (key.code = "Char" /\ key.ch = "k"))
                /\ ~key.ctrl -> Act("Up")
           [] (key.code = "Down" \/ (key.code = "Char" /\ key.ch = "j"))
                /\ ~key.ctrl -> Act("Down")
           [] key.code = "Enter" -> Act("Select")
           [] key.code = "Esc" -> Act("Back")
           [] key.code = "Char" /\ key.ch = "q" /\ ~key.ctrl -> Act("Quit")
           [] OTHER -> EditAction(key)

key_to_input_action(key) ==
    IF key.ctrl /\ key.code = "Char" /\ key.ch = "c" THEN Act("Quit")
    ELSE CASE key.code = "Enter" -> Act("Select")
           [] key.code = "Esc" -> Act("Back")
           [] key.code \in {"Up", "Down"} -> Act(key.code)
           [] OTHER -> EditAction(key)

-----------------------------------------------------------------------------
(* app.rs: App *)

St(kind) == [kind |-> kind, text |-> <<>>]
ShowingResult(response) == [kind |-> "ShowingResult", text |-> response]
Error(message) == [kind |-> "Error", text |-> message]

menu_items ==
    <<"AskQuestion", "RecentPrompts", "ViewContext", "PrivacySettings",
      "ClearConversation", "Exit">>

result_actions ==
    <<"RunCommand", "CopyToClipboard", "AskFollowUp", "BackToMenu">>

Item(kind) == [kind |-> kind, key |-> "", enabled |-> FALSE]

\* refresh_settings_items: the items it builds
SettingsItems(s) ==
    <<Item("ChangeProvider"), Item("Separator")>>
    \o [i \in 1..Len(PrivacyKeys) |->
            [kind |-> "Toggle", key |-> PrivacyKeys[i],
             enabled |-> is_enabled(s, PrivacyKeys[i])]]
    \o <<Item("Separator2"), Item("EnableAll"), Item("DisableAll"), Item("Back")>>

refresh_settings_items(w) ==
    [w EXCEPT !.app.current_provider =
                    get_current_provider_name(w.env.settings, w.env.path),
              !.app.settings_items = SettingsItems(w.env.settings)]

\* A handler returns the set of worlds it can leave: w.fault is "none" when it
\* returned Ok(()), and names the failed call when it returned Err or panicked.
Fail(w, f) == [w EXCEPT !.fault = f]

tick_spinner(a) == [a EXCEPT !.spinner_frame = (a.spinner_frame + 1) % 10]

\* The thread start_query spawns
Worker(id, prompt) == [id |-> id, prompt |-> prompt]

\* mpsc::channel(): the receiving end, with the value in the channel if any,
\* and whether the sender is still alive
Receiver(id) == [id |-> id, buf |-> None, open |-> TRUE]

start_query(w, query) ==
    LET e == w.env
        w1 == [w EXCEPT !.env.history_file =
                            Some(add_to_prompt_history(e.history_file, query))]
        cleaned == cleanup_stale_session(e.session_file, e.session_age)
        w2 == [w1 EXCEPT !.env.session_file = cleaned,
                         !.env.session_age = IF IsSome(cleaned) THEN @ ELSE 0]
        ctx == gather_context(e.settings)
        history == get_session_history(e.session_file, e.session_age)
        full_prompt == build_full_prompt(query, ctx, history)
        id == w.spawned + 1
    IN {Fail(w, "add_to_prompt_history")}
       \cup (IF IsSome(cleaned) THEN {Fail(w2, "get_session_history")} ELSE {})
       \cup {[w2 EXCEPT !.app.pending_query = Some(query),
                        !.app.query_receiver = Some(Receiver(id)),
                        !.workers = @ \cup {Worker(id, full_prompt)},
                        !.spawned = id,
                        !.app.state = St("Loading")]}

submit_query(w, query) == start_query(w, query)

\* try_recv with an empty channel taken for a disconnected one
try_recv_EmptyIsDisconnected(rx) ==
    IF IsSome(rx.buf) THEN "Value" ELSE "Disconnected"

\* Receiver::try_recv
try_recv(rx) ==
    IF IsSome(rx.buf) THEN "Value"
    ELSE IF rx.open THEN "Empty" ELSE "Disconnected"

\* the Ok(response) arm with the prompt saved to the history once more
QuerySucceeded_SavesHistory(w, query, response) ==
    LET e == w.env
        content == append_to_session(e.session_file, query, response)
    IN {[w EXCEPT !.env.session_file = Some(content),
                  !.env.session_age = 0,
                  !.env.result_file = Some(response),
                  !.env.history_file =
                      Some(add_to_prompt_history(e.history_file, query)),
                  !.app.session_turns = get_session_turn_count(Some(content), 0),
                  !.app.last_response = Some(response),
                  !.app.result_selected = 0,
                  !.app.state = ShowingResult(response)]}

\* the Ok(response) arm of check_query_complete
QuerySucceeded(w, query, response) ==
    LET e == w.env
        content == append_to_session(e.session_file, query, response)
        w1 == [w EXCEPT !.env.session_file = Some(content),
                        !.env.session_age = 0]
        w2 == [w1 EXCEPT !.env.result_file = Some(response)]
    IN {Fail(w, "append_to_session"), Fail(w1, "save_last_result")}
       \cup {[w2 EXCEPT !.app.session_turns =
                            get_session_turn_count(Some(content), 0),
                        !.app.last_response = Some(response),
                        !.app.result_selected = 0,
                        !.app.state = ShowingResult(response)]}

\* the Err(e) arm with the session saved before the result is looked at
QueryFailed_SavesTurn(w, e) ==
    LET content == append_to_session(w.env.session_file, <<>>, e)
    IN {[w EXCEPT !.env.session_file = Some(content),
                  !.env.session_age = 0,
                  !.env.result_file = Some(e),
                  !.app.session_turns = get_session_turn_count(Some(content), 0),
                  !.app.state = Error(e)]}

\* the Err(e) arm with the receiver left in place
QueryFailed_KeepsReceiver(w, e) ==
    {[w EXCEPT !.app.query_receiver =
                   Some([id |-> w.spawned, buf |-> Some(Err(e)), open |-> FALSE]),
               !.app.state = Error(e)]}

\* the Err(e) arm of check_query_complete
QueryFailed(w, e) == {[w EXCEPT !.app.state = Error(e)]}

\* the Disconnected arm starting the query again
QueryDisconnected_Retries(w) ==
    LET id == w.spawned + 1
    IN {[w EXCEPT !.app.query_receiver = Some(Receiver(id)),
                  !.workers = @ \cup {Worker(id, Unwrap(w.app.pending_query))},
                  !.spawned = id]}

\* the Err(TryRecvError::Disconnected) arm of check_query_complete
QueryDisconnected(w) ==
    {[w EXCEPT !.app.query_receiver = None,
               !.app.pending_query = None,
               !.app.state = Error(<<"Query thread disconnected">>)]}

check_query_complete(w) ==
    IF IsSome(w.app.query_receiver)
    THEN LET rx == Unwrap(w.app.query_receiver)
             r == try_recv(rx)
         IN CASE r = "Value" ->
                    LET query == IF IsSome(w.app.pending_query)
                                 THEN Unwrap(w.app.pending_query) ELSE <<>>
                        w1 == [w EXCEPT !.app.pending_query = None,
                                        !.app.query_receiver = None]
                        result == Unwrap(rx.buf)
                    IN IF result.kind = "Ok"
                       THEN QuerySucceeded(w1, query, result.text)
                       ELSE QueryFailed(w1, result.text)
              [] r = "Empty" -> {w}
              [] OTHER -> QueryDisconnected(w)
    ELSE {w}

handle_main_menu_key(w, action) ==
    LET a == w.app
    IN CASE action.a = "Up" ->
              {IF a.selected_index > 0
               THEN [w EXCEPT !.app.selected_index = @ - 1] ELSE w}
         [] action.a = "Down" ->
              {IF a.selected_index < Len(menu_items) - 1
               THEN [w EXCEPT !.app.selected_index = @ + 1] ELSE w}
         [] action.a = "Select" ->
              LET item == menu_items[a.selected_index + 1]
              IN CASE item = "AskQuestion" ->
                        {[w EXCEPT !.app.input = <<>>,
                                   !.app.cursor_position = 0,
                                   !.app.state = St("PromptInput")]}
                   [] item = "RecentPrompts" ->
                        (IF IsSome(w.env.history_file)
                         THEN {Fail(w, "get_recent_prompts")} ELSE {})
                        \cup {[w EXCEPT !.app.recent_prompts =
                                            get_recent_prompts(w.env.history_file, 20),
                                        !.app.prompts_selected = 0,
                                        !.app.state = St("RecentPrompts")]}
                   [] item = "ViewContext" ->
                        {[w EXCEPT !.app.context_display =
                                        gather_context_display(w.env.settings),
                                   !.app.state = St("ContextView")]}
                   [] item = "PrivacySettings" ->
                        {[refresh_settings_items(w)
                            EXCEPT !.app.settings_selected = 0,
                                   !.app.state = St("SettingsMenu")]}
                   [] item = "ClearConversation" ->
                        (IF IsSome(w.env.session_file)
                         THEN {Fail(w, "clear_session")} ELSE {})
                        \cup {[w EXCEPT !.env.session_file =
                                            clear_session(@),
                                        !.env.session_age = 0,
                                        !.app.session_turns = 0]}
                   [] OTHER -> {[w EXCEPT !.app.running = FALSE]}
         [] action.a = "Quit" -> {[w EXCEPT !.app.running = FALSE]}
         [] OTHER -> {w}

\* str::is_char_boundary
is_char_boundary(s, b) ==
    \E k \in 0..Len(s) : StrLen(SubSeq(s, 1, k)) = b

\* the number of chars of s that lie before the byte index b
CharsBefore(s, b) ==
    CHOOSE k \in 0..Len(s) : StrLen(SubSeq(s, 1, k)) = b

\* String::insert and String::remove at a byte index where they do not panic
StrInsert(s, b, c) ==
    LET k == CharsBefore(s, b)
    IN SubSeq(s, 1, k) \o <<c>> \o SubSeq(s, k + 1, Len(s))

StrRemove(s, b) ==
    LET k == CharsBefore(s, b)
    IN SubSeq(s, 1, k) \o SubSeq(s, k + 2, Len(s))

CanRemove(s, b) == b < StrLen(s) /\ is_char_boundary(s, b)

\* Select submitting the buffer whatever it holds
handle_input_key_SubmitsBlank(w, action) ==
    LET a == w.app
    IN CASE action.a = "Char" ->
              {IF is_char_boundary(a.input, a.cursor_position)
               THEN [w EXCEPT !.app.input =
                                  StrInsert(a.input, a.cursor_position, action.ch),
                              !.app.cursor_position = @ + 1]
               ELSE Fail(w, "panic")}
         [] action.a = "Backspace" ->
              {IF a.cursor_position > 0
               THEN IF CanRemove(a.input, a.cursor_position - 1)
                    THEN [w EXCEPT !.app.cursor_position = @ - 1,
                                   !.app.input =
                                       StrRemove(a.input, a.cursor_position - 1)]
                    ELSE Fail([w EXCEPT !.app.cursor_position = @ - 1], "panic")
               ELSE w}
         [] action.a = "Delete" ->
              {IF a.cursor_position < StrLen(a.input)
               THEN IF CanRemove(a.input, a.cursor_position)
                    THEN [w EXCEPT !.app.input =
                                       StrRemove(a.input, a.cursor_position)]
                    ELSE Fail(w, "panic")
               ELSE w}
         [] action.a = "Left" ->
              {IF a.cursor_position > 0
               THEN [w EXCEPT !.app.cursor_position = @ - 1] ELSE w}
         [] action.a = "Right" ->
              {IF a.cursor_position < StrLen(a.input)
               THEN [w EXCEPT !.app.cursor_position = @ + 1] ELSE w}
         [] action.a = "Home" -> {[w EXCEPT !.app.cursor_position = 0]}
         [] action.a = "End" ->
              {[w EXCEPT !.app.cursor_position = StrLen(a.input)]}
         [] action.a = "Select" ->
              submit_query(w, a.input)
         [] action.a = "Back" -> {[w EXCEPT !.app.state = St("MainMenu")]}
         [] action.a = "Quit" -> {[w EXCEPT !.app.running = FALSE]}
         [] OTHER -> {w}

handle_input_key(w, action) ==
    LET a == w.app
    IN CASE action.a = "Char" ->
              {IF is_char_boundary(a.input, a.cursor_position)
               THEN [w EXCEPT !.app.input =
                                  StrInsert(a.input, a.cursor_position, action.ch),
                              !.app.cursor_position = @ + 1]
               ELSE Fail(w, "panic")}
         [] action.a = "Backspace" ->
              {IF a.cursor_position > 0
               THEN IF CanRemove(a.input, a.cursor_position - 1)
                    THEN [w EXCEPT !.app.cursor_position = @ - 1,
                                   !.app.input =
                                       StrRemove(a.input, a.cursor_position - 1)]
                    ELSE Fail([w EXCEPT !.app.cursor_position = @ - 1], "panic")
               ELSE w}
         [] action.a = "Delete" ->
              {IF a.cursor_position < StrLen(a.input)
               THEN IF CanRemove(a.input, a.cursor_position)
                    THEN [w EXCEPT !.app.input =
                                       StrRemove(a.input, a.cursor_position)]
                    ELSE Fail(w, "panic")
               ELSE w}
         [] action.a = "Left" ->
              {IF a.cursor_position > 0
               THEN [w EXCEPT !.app.cursor_position = @ - 1] ELSE w}
         [] action.a = "Right" ->
              {IF a.cursor_position < StrLen(a.input)
               THEN [w EXCEPT !.app.cursor_position = @ + 1] ELSE w}
         [] action.a = "Home" -> {[w EXCEPT !.app.cursor_position = 0]}
         [] action.a = "End" ->
              {[w EXCEPT !.app.cursor_position = StrLen(a.input)]}
         [] action.a = "Select" ->
              IF Trim(a.input) # <<>> THEN submit_query(w, a.input) ELSE {w}
         [] action.a = "Back" -> {[w EXCEPT !.app.state = St("MainMenu")]}
         [] action.a = "Quit" -> {[w EXCEPT !.app.running = FALSE]}
         [] OTHER -> {w}

\* Follow-up keeping the text of the earlier prompt
handle_result_action_FollowUpKeepsInput(w, action) ==
    CASE action = "RunCommand" ->
            {IF IsSome(w.app.last_response)
             THEN [w EXCEPT !.app.running = FALSE] ELSE w}
      [] action = "CopyToClipboard" -> {[w EXCEPT !.app.state = St("MainMenu")]}
      [] action = "AskFollowUp" -> {[w EXCEPT !.app.state = St("PromptInput")]}
      [] OTHER -> {[w EXCEPT !.app.state = St("MainMenu")]}

\* Run leaving the loop running
handle_result_action_RunStays(w, action) ==
    CASE action = "AskFollowUp" ->
            {[w EXCEPT !.app.input = <<>>,
                       !.app.cursor_position = 0,
                       !.app.state = St("PromptInput")]}
      [] action = "RunCommand" -> {w}
      [] OTHER -> {[w EXCEPT !.app.state = St("MainMenu")]}

handle_result_action(w, action) ==
    CASE action = "RunCommand" ->
            {IF IsSome(w.app.last_response)
             THEN [w EXCEPT !.app.running = FALSE] ELSE w}
      [] action = "CopyToClipboard" -> {[w EXCEPT !.app.state = St("MainMenu")]}
      [] action = "AskFollowUp" ->
            {[w EXCEPT !.app.input = <<>>,
                       !.app.cursor_position = 0,
                       !.app.state = St("PromptInput")]}
      [] OTHER -> {[w EXCEPT !.app.state = St("MainMenu")]}

handle_result_key(w, action) ==
    LET a == w.app
    IN CASE action.a = "Up" ->
              {IF a.result_selected > 0
               THEN [w EXCEPT !.app.result_selected = @ - 1] ELSE w}
         [] action.a = "Down" ->
              {IF a.result_selected < Len(result_actions) - 1
               THEN [w EXCEPT !.app.result_selected = @ + 1] ELSE w}
         [] action.a = "Select" ->
              handle_result_action(w, result_actions[a.result_selected + 1])
         [] action.a = "Back" -> {[w EXCEPT !.app.state = St("MainMenu")]}
         [] action.a = "Quit" -> {[w EXCEPT !.app.running = FALSE]}
         [] OTHER -> {w}

handle_context_key(w, action) ==
    CASE action.a \in {"Back", "Select"} -> {[w EXCEPT !.app.state = St("MainMenu")]}
      [] action.a = "Quit" -> {[w EXCEPT !.app.running = FALSE]}
      [] OTHER -> {w}

IsSeparator(item) == item.kind \in {"Separator", "Separator2"}

\* the Up loop leaving the selection on a separator
SkipUp_NoSkip(items, sel) == sel

RECURSIVE SkipUp(_, _)
\* the while loop of Up: skip separators, stop at index 0
SkipUp(items, sel) ==
    IF sel > 0 /\ IsSeparator(items[sel + 1]) THEN SkipUp(items, sel - 1)
    ELSE sel

\* the Down loop leaving the selection on a separator
SkipDown_NoSkip(items, sel) == sel

RECURSIVE SkipDown(_, _)
\* the while loop of Down: skip separators, stop at the last index
SkipDown(items, sel) ==
    IF sel < Len(items) - 1 /\ IsSeparator(items[sel + 1])
    THEN SkipDown(items, sel + 1)
    ELSE sel

NextProvider(current) ==
    CASE current = "auto" -> "claude"
      [] current = "claude" -> "codex"
      [] current = "codex" -> "auto"
      [] OTHER -> "auto"

\* Enable all / Disable all: one set_setting per privacy setting; the k-th
\* may fail after the first k - 1 were written
SetAll(w, v) ==
    {Fail([w EXCEPT !.env.settings = SetFirst(@, k - 1, v)], "set_setting") :
        k \in 1..Len(PrivacyKeys)}
    \cup {refresh_settings_items(
              [w EXCEPT !.env.settings = SetFirst(@, Len(PrivacyKeys), v)])}

handle_settings_key(w, action) ==
    LET a == w.app
    IN CASE action.a = "Up" ->
              {IF a.settings_selected > 0
               THEN [w EXCEPT !.app.settings_selected =
                                  SkipUp(a.settings_items, a.settings_selected - 1)]
               ELSE w}
         [] action.a = "Down" ->
              {IF a.settings_selected < Len(a.settings_items) - 1
               THEN [w EXCEPT !.app.settings_selected =
                                  SkipDown(a.settings_items, a.settings_selected + 1)]
               ELSE w}
         [] action.a = "Select" ->
              LET item == a.settings_items[a.settings_selected + 1]
              IN CASE item.kind = "ChangeProvider" ->
                        {Fail(w, "get_setting"), Fail(w, "set_setting")}
                        \cup {refresh_settings_items(
                                  [w EXCEPT !.env.settings["ai_provider"] =
                                                NextProvider(@)])}
                   [] item.kind = "Toggle" ->
                        {Fail(w, "toggle_setting")}
                        \cup {refresh_settings_items(
                                  [w EXCEPT !.env.settings =
                                                toggle_setting(@, item.key)])}
                   [] item.kind = "EnableAll" -> SetAll(w, "true")
                   [] item.kind = "DisableAll" -> SetAll(w, "false")
                   [] item.kind = "Back" ->
                        {[w EXCEPT !.app.state = St("MainMenu")]}
                   [] OTHER -> {w}
         [] action.a = "Back" -> {[w EXCEPT !.app.state = St("MainMenu")]}
         [] action.a = "Quit" -> {[w EXCEPT !.app.running = FALSE]}
         [] OTHER -> {w}

\* the subtraction that wraps around below 0 to a large number
saturating_sub_Wraps(a, b) == IF a >= b THEN a - b ELSE 2147483647 - (b - a - 1)

\* usize::saturating_sub
saturating_sub(a, b) == IF a > b THEN a - b ELSE 0

handle_prompts_key(w, action) ==
    LET a == w.app
    IN CASE action.a = "Up" ->
              {IF a.prompts_selected > 0
               THEN [w EXCEPT !.app.prompts_selected = @ - 1] ELSE w}
         [] action.a = "Down" ->
              {IF a.prompts_selected < saturating_sub(Len(a.recent_prompts), 1)
               THEN [w EXCEPT !.app.prompts_selected = @ + 1] ELSE w}
         [] action.a = "Select" ->
              IF a.recent_prompts # <<>>
              THEN submit_query(w, a.recent_prompts[a.prompts_selected + 1])
              ELSE {w}
         [] action.a = "Back" -> {[w EXCEPT !.app.state = St("MainMenu")]}
         [] action.a = "Quit" -> {[w EXCEPT !.app.running = FALSE]}
         [] OTHER -> {w}

\* Back not taken for an acknowledgment
handle_error_key_BackIgnored(w, action) ==
    CASE action.a = "Select" -> {[w EXCEPT !.app.state = St("MainMenu")]}
      [] action.a = "Quit" -> {[w EXCEPT !.app.running = FALSE]}
      [] OTHER -> {w}

handle_error_key(w, action) ==
    CASE action.a \in {"Select", "Back"} -> {[w EXCEPT !.app.state = St("MainMenu")]}
      [] action.a = "Quit" -> {[w EXCEPT !.app.running = FALSE]}
      [] OTHER -> {w}

handle_key(w, key) ==
    LET kind == w.app.state.kind
    IN CASE kind = "MainMenu" -> handle_main_menu_key(w, key_to_action(key))
         [] kind = "PromptInput" -> handle_input_key(w, key_to_input_action(key))
         [] kind = "Loading" -> {w}
         [] kind = "ShowingResult" -> handle_result_key(w, key_to_action(key))
         [] kind = "ContextView" -> handle_context_key(w, key_to_action(key))
         [] kind = "SettingsMenu" -> handle_settings_key(w, key_to_action(key))
         [] kind = "RecentPrompts" -> handle_prompts_key(w, key_to_action(key))
         [] OTHER -> handle_error_key(w, key_to_action(key))

should_run_command(a) ==
    IF a.state.kind = "ShowingResult"
    THEN a.result_selected < Len(result_actions)
         /\ result_actions[a.result_selected + 1] = "RunCommand"
    ELSE FALSE

-----------------------------------------------------------------------------
(* app.rs: App::new and run_interactive_mode; the environment *)

\* App::new
NewApp(e) ==
    [state |-> St("MainMenu"),
     running |-> TRUE,
     selected_index |-> 0,
     input |-> <<>>,
     cursor_position |-> 0,
     result_selected |-> 0,
     last_response |-> None,
     settings_items |-> <<>>,
     settings_selected |-> 0,
     current_provider |-> get_current_provider_name(e.settings, e.path),
     recent_prompts |-> <<>>,
     prompts_selected |-> 0,
     context_display |-> <<>>,
     session_turns |-> get_session_turn_count(e.session_file, e.session_age),
     spinner_frame |-> 0,
     pending_query |-> None,
     query_receiver |-> None]

\* The key events the terminal delivers
Keys ==
    {KeyEv("Up"), KeyEv("Down"), KeyEv("Enter"), KeyEv("Esc"),
     KeyEv("Backspace"), CtrlKey("c"), CharKey("q"), CharKey(" ")}

\* What the program finds when it starts: the provider setting and the tools
\* installed, and the transcript an earlier run left in this directory
InitConfigs ==
    {[provider |-> "auto", path |-> {"claude"}],
     [provider |-> "codex", path |-> {"codex"}],
     [provider |-> "mock", path |-> {}]}

InitSessions == {None, Some(append_to_session(None, <<"q">>, <<"ls">>))}

InitEnv(c, sf) ==
    [history_file |-> None,
     session_file |-> sf,
     session_age |-> 0,
     result_file |-> None,
     settings |-> [DefaultSettings EXCEPT !["ai_provider"] = c.provider],
     path |-> c.path]

\* no function is called on its own
NoCall == [fn |-> "none", args |-> <<>>, ret |-> <<>>]

Init ==
    /\ env \in {InitEnv(c, sf) : c \in InitConfigs, sf \in InitSessions}
    /\ app = NewApp(env)
    /\ workers = {}
    /\ spawned = 0
    /\ pc = "top"
    /\ fault = "none"
    /\ executed = <<>>
    /\ queue = <<>>
    /\ nkeys = 0
    /\ empty_polls = 0
    /\ probe = NoCall

World == [app |-> app, env |-> env, workers |-> workers, spawned |-> spawned,
          fault |-> "none"]

\* the world a handler left becomes the state; an Err or a panic ends
\* run_interactive_mode where it stands
Apply(o) ==
    /\ app' = o.app
    /\ env' = o.env
    /\ workers' = o.workers
    /\ spawned' = o.spawned
    /\ fault' = o.fault
    /\ pc' = IF o.fault = "none" THEN (IF pc = "top" THEN "poll" ELSE "top")
             ELSE "failed"

WithinBounds(o) ==
    /\ o.spawned <= MaxQueries
    /\ Len(o.app.input) <= MaxInput

Alive == pc \in {"top", "poll"}

ChannelEmpty ==
    /\ IsSome(app.query_receiver)
    /\ try_recv(Unwrap(app.query_receiver)) = "Empty"

\* while app.running { if Loading { check_query_complete()?; tick_spinner() }
LoopTopLoading ==
    /\ pc = "top"
    /\ app.running
    /\ app.state.kind = "Loading"
    /\ ChannelEmpty => empty_polls < MaxEmptyPolls
    /\ empty_polls' = IF ChannelEmpty THEN empty_polls + 1 ELSE empty_polls
    /\ \E o \in check_query_complete(World) :
          Apply(IF o.fault = "none"
                THEN [o EXCEPT !.app = tick_spinner(@)] ELSE o)
    /\ UNCHANGED <<probe, executed, queue, nkeys>>

LoopTopIdle ==
    /\ pc = "top"
    /\ app.running
    /\ app.state.kind # "Loading"
    /\ pc' = "poll"
    /\ UNCHANGED <<probe, app, env, workers, spawned, fault, executed,
                   queue, nkeys,
                   empty_polls>>

\* the loop ended: should_run_command, restore_terminal, sh -c
LoopExit ==
    /\ pc = "top"
    /\ ~app.running
    /\ executed' = IF should_run_command(app) /\ IsSome(app.last_response)
                   THEN Append(executed, Unwrap(app.last_response))
                   ELSE executed
    /\ pc' = "done"
    /\ UNCHANGED <<probe, app, env, workers, spawned, fault, queue, nkeys,
                   empty_polls>>

\* event_handler.next() found no event within the tick
PollTimeout ==
    /\ pc = "poll"
    /\ queue = <<>>
    /\ pc' = "top"
    /\ UNCHANGED <<probe, app, env, workers, spawned, fault, executed,
                   queue, nkeys,
                   empty_polls>>

\* event_handler.next() read a key event: if !Loading { handle_key(event)? }
PollKey ==
    /\ pc = "poll"
    /\ queue # <<>>
    /\ queue' = Tail(queue)
    /\ IF app.state.kind # "Loading"
       THEN \E o \in handle_key(World, Head(queue).key) :
               WithinBounds(o) /\ Apply(o)
       ELSE Apply(World)
    /\ UNCHANGED <<probe, executed, nkeys, empty_polls>>

\* the user presses a key: it waits in the terminal's queue until next()
KeyArrive(k) ==
    /\ Alive
    /\ Len(queue) < MaxQueue
    /\ nkeys < MaxKeys
    /\ queue' = Append(queue, [key |-> k, loading |-> app.state.kind = "Loading"])
    /\ nkeys' = nkeys + 1
    /\ UNCHANGED <<probe, app, env, workers, spawned, pc, fault, executed,
                   empty_polls>>

\* the closure of thread::spawn: run_query, tx.send, and the sender dropped
Deliver(a, wk, r) ==
    IF IsSome(a.query_receiver) /\ Unwrap(a.query_receiver).id = wk.id
    THEN [a EXCEPT !.query_receiver =
             Some([Unwrap(@) EXCEPT !.buf = IF r.kind = "Panic" THEN None
                                            ELSE Some(r),
                                    !.open = FALSE])]
    ELSE a

WorkerFinish ==
    /\ Alive
    /\ \E wk \in workers :
          \E r \in run_query(wk.prompt, env.settings, env.path) :
             /\ workers' = workers \ {wk}
             /\ app' = Deliver(app, wk, r)
    /\ UNCHANGED <<probe, env, spawned, pc, fault, executed, queue, nkeys,
                   empty_polls>>

\* time passes: the transcript reaches the timeout, then exceeds it
TimePasses ==
    /\ Alive
    /\ IsSome(env.session_file)
    /\ env.session_age <= SESSION_TIMEOUT
    /\ env' = [env EXCEPT !.session_age =
                  IF @ < SESSION_TIMEOUT THEN SESSION_TIMEOUT
                  ELSE SESSION_TIMEOUT + 1]
    /\ UNCHANGED <<probe, app, workers, spawned, pc, fault, executed,
                   queue, nkeys,
                   empty_polls>>

Next ==
    \/ LoopTopLoading
    \/ LoopTopIdle
    \/ LoopExit
    \/ PollTimeout
    \/ PollKey
    \/ \E k \in Keys : KeyArrive(k)
    \/ WorkerFinish
    \/ TimePasses

Spec == Init /\ [][Next]_vars

-----------------------------------------------------------------------------
(* The settings menu on its own: the session from the moment the user has *)
(* opened Privacy Settings, with no bound on the number of keys           *)

\* the world after Select on Privacy Settings in the main menu of a new App
OpenSettings(e) ==
    LET w0 == [app |-> [NewApp(e) EXCEPT !.selected_index = 3],
               env |-> e, workers |-> {}, spawned |-> 0, fault |-> "none"]
    IN CHOOSE o \in handle_main_menu_key(w0, Act("Select")) : TRUE

InitSettings ==
    /\ env \in {InitEnv(c, None) : c \in InitConfigs}
    /\ app = OpenSettings(env).app
    /\ workers = {}
    /\ spawned = 0
    /\ pc = "top"
    /\ fault = "none"
    /\ executed = <<>>
    /\ queue = <<>>
    /\ nkeys = 0
    /\ empty_polls = 0
    /\ probe = NoCall

\* one iteration of the loop in SettingsMenu that reads the key k
SettingsKey(k) ==
    /\ pc = "top"
    /\ app.running
    /\ app.state.kind = "SettingsMenu"
    /\ \E o \in handle_key(World, k) :
          /\ app' = o.app
          /\ env' = o.env
          /\ fault' = o.fault
          /\ pc' = IF o.fault = "none" THEN "top" ELSE "failed"
    /\ UNCHANGED <<workers, spawned, executed, queue, nkeys, empty_polls,
                   probe>>

NextSettings ==
    \/ \E k \in Keys : SettingsKey(k)
    \/ LoopExit

SpecSettings == InitSettings /\ [][NextSettings]_vars

-----------------------------------------------------------------------------
(* The session resumed where an earlier part of it left off: the prompt   *)
(* history holds a prompt, and either the settings menu is open, or Clear *)
(* Conversation is selected in the main menu beside a transcript          *)

\* sequences over S of length at most n
SeqsUpTo(S, n) == UNION {[1..k -> S] : k \in 0..n}

RECURSIVE Concat(_)
Concat(ss) == IF ss = <<>> THEN <<>> ELSE Head(ss) \o Concat(Tail(ss))

\* the lines a prompt history can hold, and the file made of such lines
HistoryLines == {<<"ls -la">>, <<"git status">>, <<" ", "ls -la">>, <<>>}

HistoryFile(ls) == Some(Concat([i \in 1..Len(ls) |-> ls[i] \o <<"\n">>]))

InitResumed ==
    /\ \/ /\ env \in {[InitEnv(c, None)
                          EXCEPT !.history_file = HistoryFile(<<<<"q">>>>)] :
                        c \in InitConfigs}
          /\ app = OpenSettings(env).app
       \/ /\ env \in {[InitEnv(c, sf)
                          EXCEPT !.history_file = HistoryFile(<<<<"q">>>>)] :
                        c \in InitConfigs, sf \in InitSessions \ {None}}
          /\ app = [NewApp(env) EXCEPT !.selected_index = 4]
    /\ workers = {}
    /\ spawned = 0
    /\ pc = "top"
    /\ fault = "none"
    /\ executed = <<>>
    /\ queue = <<>>
    /\ nkeys = 0
    /\ empty_polls = 0
    /\ probe = NoCall

\* the keys of the menus
MenuKeys == {KeyEv("Up"), KeyEv("Enter"), KeyEv("Esc"), CtrlKey("c")}

NextResumed ==
    \/ LoopTopLoading
    \/ LoopTopIdle
    \/ LoopExit
    \/ PollTimeout
    \/ PollKey
    \/ \E k \in MenuKeys : KeyArrive(k)
    \/ WorkerFinish
    \/ TimePasses

SpecResumed == InitResumed /\ [][NextResumed]_vars

-----------------------------------------------------------------------------
(* Functions called on their own, on inputs drawn from bounded sets: probe *)
(* records the function, its arguments and what it returned               *)

\* the environment of these calls
ProbeEnv == InitEnv([provider |-> "mock", path |-> {}], None)

InitFn ==
    /\ env = ProbeEnv
    /\ app = NewApp(env)
    /\ workers = {}
    /\ spawned = 0
    /\ pc = "top"
    /\ fault = "none"
    /\ executed = <<>>
    /\ queue = <<>>
    /\ nkeys = 0
    /\ empty_polls = 0
    /\ probe = NoCall

Called(fn, args, ret) ==
    /\ probe = NoCall
    /\ probe' = [fn |-> fn, args |-> args, ret |-> ret]
    /\ UNCHANGED <<app, env, workers, spawned, pc, fault, executed, queue,
                   nkeys, empty_polls>>

HistoryFiles ==
    {None} \cup {HistoryFile(ls) : ls \in SeqsUpTo(HistoryLines, MaxLines)}

CallRecentPrompts ==
    \E h \in HistoryFiles, n \in 0..MaxLimit :
        Called("get_recent_prompts", <<h, n>>, get_recent_prompts(h, n))

\* the output file codex left, if any
CodexFiles ==
    {None, Some(<<>>), Some(<<"\n">>), Some(<<"ls", "\n">>),
     Some(<<" ", "ls", " ", "-la", "\n">>)}

CallCodex ==
    \E success \in BOOLEAN, file \in CodexFiles :
        Called("run_codex_query", <<success, file>>, CodexResult(success, file))

\* the list of the settings menu, and the list of five rows
ExampleItems ==
    <<Item("ChangeProvider"), Item("Separator"),
      [kind |-> "Toggle", key |-> PrivacyKeys[1], enabled |-> TRUE],
      Item("Separator2"), Item("Back")>>

NavLists == {SettingsItems(ProbeEnv.settings), ExampleItems}

Selectable(items) ==
    {i \in 0..(Len(items) - 1) : ~IsSeparator(items[i + 1])}

NavWorld(items, sel) ==
    LET o == OpenSettings(ProbeEnv)
    IN [o EXCEPT !.app.settings_items = items, !.app.settings_selected = sel]

RECURSIVE Navigate(_, _, _)
\* the selection after handle_settings_key has handled the keys ks in turn
Navigate(items, sel, ks) ==
    IF ks = <<>> THEN sel
    ELSE LET o == CHOOSE x \in handle_settings_key(NavWorld(items, sel),
                                                   key_to_action(Head(ks))) : TRUE
         IN Navigate(items, o.app.settings_selected, Tail(ks))

CallSettingsKeys ==
    \E items \in NavLists :
       \E sel \in Selectable(items),
          ks \in SeqsUpTo({KeyEv("Up"), KeyEv("Down")}, MaxNav) \ {<<>>} :
            Called("handle_settings_key", <<items, sel, ks>>,
                   Navigate(items, sel, ks))

\* the values of ai_provider and custom_provider_cmd, and the tools in PATH
ProviderSettings == {"auto", "claude", "codex", "custom", "mock", "gpt"}

CustomCmds == {"", "mytool"}

Paths == SUBSET {"claude", "codex"}

CallProvider ==
    \E setting \in ProviderSettings, cmd \in CustomCmds, path \in Paths :
        Called("get_current_provider", <<setting, cmd, path>>,
               get_current_provider(
                   [DefaultSettings EXCEPT !["ai_provider"] = setting,
                                           !["custom_provider_cmd"] = cmd],
                   path))

\* gather_context under every combination of the privacy flags
CallGatherContext ==
    \E on \in SUBSET PrivacyKeySet :
        LET s == [k \in DOMAIN DefaultSettings |->
                     IF k \in PrivacyKeySet
                     THEN (IF k \in on THEN "true" ELSE "false")
                     ELSE DefaultSettings[k]]
        IN Called("gather_context", <<s>>, gather_context(s))

\* build_full_prompt on a few queries, contexts and histories
CallBuildPrompt ==
    \E q \in {<<"q">>, <<"list files">>, <<"ls", " ", "-la">>},
       c \in {gather_context(DefaultSettings),
              gather_context(SetFirst(DefaultSettings, Len(PrivacyKeys), "false")),
              <<"## Context", "\n", "Shell: zsh">>},
       h \in {None, Some(<<>>), Some(append_to_session(None, <<"q">>, <<"ls">>))} :
        Called("build_full_prompt", <<q, c, h>>, build_full_prompt(q, c, h))

\* run_claude_query and run_custom_query on what a child left behind
CallPipe ==
    \E prefix \in {"Claude error:", "Custom command error:"},
       success \in BOOLEAN,
       stdout \in {<<>>, <<"\n">>, <<"ls", "\n">>,
                   <<" ", "ls", " ", "-la", "\n">>},
       stderr \in {<<>>, <<"boom", "\n">>} :
        Called("PipeResult", <<prefix, success, stdout, stderr>>,
               PipeResult(prefix, success, stdout, stderr))

NextFn ==
    \/ CallRecentPrompts
    \/ CallCodex
    \/ CallSettingsKeys
    \/ CallProvider
    \/ CallGatherContext
    \/ CallBuildPrompt
    \/ CallPipe

SpecFn == InitFn /\ [][NextFn]_vars

-----------------------------------------------------------------------------
(* The prompt input on its own: the session from the moment the user has    *)
(* selected Ask in the main menu, with the editing keys and characters of   *)
(* one and of two bytes                                                     *)

InitInput ==
    /\ env = ProbeEnv
    /\ app = [NewApp(env) EXCEPT !.state = St("PromptInput")]
    /\ workers = {}
    /\ spawned = 0
    /\ pc = "top"
    /\ fault = "none"
    /\ executed = <<>>
    /\ queue = <<>>
    /\ nkeys = 0
    /\ empty_polls = 0
    /\ probe = NoCall

NextInput ==
    \/ LoopTopIdle
    \/ LoopExit
    \/ PollTimeout
    \/ PollKey
    \/ \E k \in {CharKey("a"), CharKey("U+00E9"), KeyEv("Backspace"),
                  KeyEv("Delete"), KeyEv("Left"), KeyEv("Right"),
                  KeyEv("Home"), KeyEv("End"), CtrlKey("c")} : KeyArrive(k)

SpecInput == InitInput /\ [][NextInput]_vars

-----------------------------------------------------------------------------
(* Two instances of the program in one working directory: get_session_file  *)
(* and get_history_file give both the same two files. Each instance runs    *)
(* one successful query; a step is one read or one write of a file. Here    *)
(* app[i] is what instance i holds: where it stands, its query, the         *)
(* response of its provider and the content it last read.                   *)

InitTwo ==
    /\ env = ProbeEnv
    /\ app \in [{1, 2} -> {[pc |-> "start", query |-> q, response |-> r,
                             content |-> <<>>] :
                               q \in {<<"a">>, <<"b">>},
                               r \in {<<"ls">>, <<"pwd">>}}]
    /\ app[1].query # app[2].query
    /\ workers = {}
    /\ spawned = 0
    /\ pc = "top"
    /\ fault = "none"
    /\ executed = <<>>
    /\ queue = <<>>
    /\ nkeys = 0
    /\ empty_polls = 0
    /\ probe = NoCall

\* add_to_prompt_history in start_query of instance i: read_to_string of the
\* history file if it exists, then fs::write of the content with the prompt
AddToPromptHistory(i) ==
    /\ \/ /\ app[i].pc = "start"
          /\ app' = [app EXCEPT ![i].pc = "history_read",
                                 ![i].content =
                                     IF IsSome(env.history_file)
                                     THEN Unwrap(env.history_file) ELSE <<>>]
          /\ env' = env
       \/ /\ app[i].pc = "history_read"
          /\ env' = [env EXCEPT !.history_file =
                         Some(add_to_prompt_history(Some(app[i].content),
                                                    app[i].query))]
          /\ app' = [app EXCEPT ![i].pc = "loading", ![i].content = <<>>]
    /\ UNCHANGED <<workers, spawned, pc, fault, executed, queue, nkeys,
                   empty_polls, probe>>

\* append_to_session in check_query_complete of instance i, once its worker
\* has delivered Ok(response): read_to_string of the session file if it
\* exists, then fs::write of the content with the turn
AppendToSession(i) ==
    /\ \/ /\ app[i].pc = "loading"
          /\ app' = [app EXCEPT ![i].pc = "session_read",
                                 ![i].content =
                                     IF IsSome(env.session_file)
                                     THEN Unwrap(env.session_file) ELSE <<>>]
          /\ env' = env
       \/ /\ app[i].pc = "session_read"
          /\ env' = [env EXCEPT !.session_file =
                         Some(append_to_session(Some(app[i].content),
                                                app[i].query, app[i].response)),
                                !.session_age = 0,
                                !.result_file = Some(app[i].response)]
          /\ app' = [app EXCEPT ![i].pc = "done", ![i].content = <<>>]
    /\ UNCHANGED <<workers, spawned, pc, fault, executed, queue, nkeys,
                   empty_polls, probe>>

NextTwo == \E i \in {1, 2} : AddToPromptHistory(i) \/ AppendToSession(i)

SpecTwo == InitTwo /\ [][NextTwo]_vars

-----------------------------------------------------------------------------
(* run_codex_query and its output file: the dispatches of one process, which *)
(* all use the file cmdk-codex-<pid>.txt of the temp dir                     *)

\* run_codex_query on the output file `file` an earlier dispatch left (None:
\* no file): whether codex was spawned, its exit status, what it wrote to the
\* file (None: nothing), and whether read_to_string succeeds. The record is
\* the Result and the file left behind (remove_file is taken to succeed; the
\* code ignores its error).
CodexDispatch(file, spawn_ok, success, written, readable) ==
    LET at_exit == IF IsSome(written) THEN written ELSE file
    IN IF ~spawn_ok
       THEN [result |-> Err(<<"Failed to spawn codex process">>), file |-> file]
       ELSE IF IsSome(at_exit)
            THEN IF readable
                 THEN [result |-> CodexResult(success, at_exit), file |-> None]
                 ELSE [result |-> Err(<<"Failed to read codex output">>),
                       file |-> at_exit]
            ELSE [result |-> Err(<<"Codex did not produce output">>),
                  file |-> None]

\* one more query goes to codex: the probe holds the number of the dispatch,
\* the output file it found and what happened, and the record it returned
Dispatch ==
    /\ LET n == IF probe = NoCall THEN 0 ELSE probe.args[1]
           file == IF probe = NoCall THEN None ELSE probe.ret.file
       IN /\ n < MaxDispatch
          /\ \E spawn_ok \in BOOLEAN, success \in BOOLEAN, readable \in BOOLEAN,
                written \in {None, Some(<<"\n">>), Some(<<"ls", "\n">>),
                             Some(<<"pwd", "\n">>)} :
                probe' = [fn |-> "CodexDispatch",
                          args |-> <<n + 1, file, spawn_ok, success, written,
                                     readable>>,
                          ret |-> CodexDispatch(file, spawn_ok, success,
                                                written, readable)]
    /\ UNCHANGED <<app, env, workers, spawned, pc, fault, executed, queue,
                   nkeys, empty_polls>>

SpecCodex == InitFn /\ [][Dispatch]_vars

-----------------------------------------------------------------------------
(* The steps of the UI thread, as the claims speak of them *)

Loading == app.state.kind = "Loading"

\* the UI thread handles (or drops) the key event at the head of the queue
PollKeyStep == pc = "poll" /\ queue # <<>> /\ queue' = Tail(queue)

\* the text Select would submit in the current state
SubmitText ==
    CASE app.state.kind = "PromptInput" -> app.input
      [] app.state.kind = "RecentPrompts" /\ app.recent_prompts # <<>> ->
            app.recent_prompts[app.prompts_selected + 1]
      [] OTHER -> <<>>

\* the UI thread handles Select on a text that is not empty after trimming
SubmitStep ==
    /\ PollKeyStep
    /\ app.state.kind \in {"PromptInput", "RecentPrompts"}
    /\ (IF app.state.kind = "PromptInput"
        THEN key_to_input_action(Head(queue).key)
        ELSE key_to_action(Head(queue).key)).a = "Select"
    /\ Trim(SubmitText) # <<>>

\* the UI thread runs check_query_complete
CheckStep == pc = "top" /\ app.running /\ Loading /\ pc' # "top"

\* what is in the result channel
Delivered(kind) ==
    /\ IsSome(app.query_receiver)
    /\ IsSome(Unwrap(app.query_receiver).buf)
    /\ Unwrap(Unwrap(app.query_receiver).buf).kind = kind

SenderGone ==
    /\ IsSome(app.query_receiver)
    /\ ~IsSome(Unwrap(app.query_receiver).buf)
    /\ ~Unwrap(app.query_receiver).open

DeliveredText == Unwrap(Unwrap(app.query_receiver).buf).text

\* the poll observes the worker's success / the query's failure
SuccessStep == CheckStep /\ Delivered("Ok")
FailureStep == CheckStep /\ (Delivered("Err") \/ SenderGone)

\* a worker thread ends
WorkerStep == workers' # workers /\ workers' \subseteq workers

PersistenceFaults ==
    {"add_to_prompt_history", "get_session_history", "append_to_session",
     "save_last_result", "get_recent_prompts", "clear_session"}

-----------------------------------------------------------------------------
(* The claims *)

\* C1: every submit of a text that is not empty after trimming sets the state
\* to Loading, and the poll that finds the worker finished (a value in the
\* channel, or the sender gone) leaves exactly one of ShowingResult and Error.
C1_SubmitReachesOneTerminalState ==
    [][/\ SubmitStep => app'.state.kind = "Loading"
       /\ (CheckStep /\ ~ChannelEmpty /\ IsSome(app.query_receiver)) =>
             app'.state.kind \in {"ShowingResult", "Error"}]_vars

\* C2: a key event that arrived while the state was Loading has no effect on
\* the state, the selection indices, the text buffer or the running flag,
\* whenever the UI thread reads it.
C2_KeysArrivingWhileLoadingDropped ==
    [][(PollKeyStep /\ Head(queue).loading) =>
          UNCHANGED <<app.state, app.selected_index, app.result_selected,
                      app.settings_selected, app.prompts_selected, app.input,
                      app.cursor_position, app.running>>]_vars

\* C3: at most one worker thread is in flight, and start_query runs only when
\* no earlier worker is in flight and the earlier receiver, if still held,
\* holds the delivered result.
C3_AtMostOnePendingQuery ==
    [][/\ Cardinality(workers) <= 1
       /\ Cardinality(workers') <= 1
       /\ spawned' > spawned =>
             /\ workers = {}
             /\ IsSome(app.query_receiver) =>
                   IsSome(Unwrap(app.query_receiver).buf)]_vars

\* C3 witness: a second query was started and its worker is in flight
C3_Witness == spawned = 2 /\ workers # {} /\ Loading

\* C4: the state is Loading only if pending_query and query_receiver are set.
C4_LoadingHasPendingQuery ==
    Loading => IsSome(app.pending_query) /\ IsSome(app.query_receiver)

\* C5: when the poll finds Ok(text) in the channel, the state becomes
\* ShowingResult{text}, whether or not the transcript and the last-result
\* file could be written.
C5_ResultShownDespitePersistenceError ==
    [][SuccessStep => app'.state = ShowingResult(DeliveredText)]_vars

\* C6: no persistence error ends the UI loop, and every failed query (an Err
\* of the resolver or of the subprocess, a disconnected channel) becomes the
\* Error state with the loop still running.
C6_ErrorsSurfaceAsErrorState ==
    [][/\ fault' \notin PersistenceFaults
       /\ FailureStep => (app'.state.kind = "Error" /\ pc' = "poll")]_vars

\* C7: if the prompt-history write fails at submit, the query is started all
\* the same: a worker is spawned and the state becomes Loading.
C7_HistoryWriteBestEffort ==
    [][(SubmitStep /\ fault' = "add_to_prompt_history") =>
          (app'.state.kind = "Loading" /\ spawned' = spawned + 1)]_vars

\* C8: when the poll finds the query failed (Err delivered, or the sender
\* gone), the transcript, the last-result file and the turn counter stay as
\* they are.
C8_FailureLeavesSessionStore ==
    [][FailureStep =>
          UNCHANGED <<env.session_file, env.result_file, app.session_turns>>]_vars

\* C8 witness: a failed query ended in Error beside a transcript that has a turn
C8_Witness ==
    /\ app.state.kind = "Error"
    /\ spawned > 0
    /\ IsSome(env.session_file)
    /\ app.session_turns = 1

\* C9: after the append of a completed query (on a transcript that has not
\* expired) the transcript contains the user text and the response text, and
\* the turn count is exactly 1 greater than before the append.
C9_AppendRoundTrip ==
    [][(SuccessStep /\ fault' = "none" /\ env.session_age <= SESSION_TIMEOUT) =>
          /\ Contains(Unwrap(env'.session_file), Unwrap(app.pending_query))
          /\ Contains(Unwrap(env'.session_file), DeliveredText)
          /\ get_session_turn_count(env'.session_file, env'.session_age)
                = get_session_turn_count(env.session_file, env.session_age) + 1]_vars

\* C10 as claimed: the transcript and the prompt history change only in the
\* step in which the UI thread observes a worker's success.
C10_FilesWrittenOnlyAfterSuccess ==
    [][(env'.session_file # env.session_file
        \/ env'.history_file # env.history_file) => SuccessStep]_vars

\* C10 amended: no worker thread writes either file; the transcript is given
\* content only by the UI thread in the step that observes a worker's success
\* (otherwise it is only removed); the prompt history is written only by the
\* UI thread at submit, and not at completion.
C10_FilesWrittenOnlyByUiThread ==
    [][/\ (env'.session_file # env.session_file /\ IsSome(env'.session_file))
             => SuccessStep
       /\ env'.history_file # env.history_file => SubmitStep
       /\ WorkerStep =>
             UNCHANGED <<env.session_file, env.history_file>>]_vars

\* C10 witness: the prompt history was written at submit, the worker is in
\* flight and the transcript is still absent
C10_Witness ==
    /\ Loading
    /\ workers # {}
    /\ IsSome(env.history_file)
    /\ ~IsSome(env.session_file)

\* the poll finds the sender gone and no value in the channel
DisconnectStep == CheckStep /\ SenderGone

\* C11: when the poll finds the channel disconnected, the state becomes Error
\* with the fixed message, pending_query and query_receiver are dropped, and
\* no worker is spawned in that step; a worker is only ever spawned by a
\* submit of the user.
C11_DisconnectIsTerminal ==
    [][/\ DisconnectStep =>
             /\ app'.state = Error(<<"Query thread disconnected">>)
             /\ app'.pending_query = None
             /\ app'.query_receiver = None
             /\ spawned' = spawned
             /\ workers' = workers
       /\ spawned' # spawned => SubmitStep]_vars

\* C11 witness: a query ended with the disconnect message
C11_Witness ==
    /\ app.state = Error(<<"Query thread disconnected">>)
    /\ spawned > 0
    /\ app.pending_query = None
    /\ pc = "poll"

\* the poll finds a value, or the sender gone
TerminalObservation ==
    CheckStep /\ IsSome(app.query_receiver) /\ ~ChannelEmpty

\* C12: a poll that finds no value yet keeps the receiver; a poll that finds
\* a value or the sender gone discards it; the receiver held is always the one
\* of the last query started, so a discarded receiver is never polled again.
C12_TerminalObservationOnce ==
    [][/\ (CheckStep /\ ChannelEmpty) =>
             /\ app'.query_receiver = app.query_receiver
             /\ app'.state.kind = "Loading"
       /\ TerminalObservation => app'.query_receiver = None
       /\ spawned' >= spawned
       /\ IsSome(app'.query_receiver) =>
             /\ Unwrap(app'.query_receiver).id = spawned'
             /\ ~IsSome(app.query_receiver) => spawned' = spawned + 1]_vars

\* C12 witness: a query was polled with no value yet, then ended
C12_Witness ==
    /\ empty_polls > 0
    /\ spawned > 0
    /\ app.query_receiver = None
    /\ app.state.kind \in {"ShowingResult", "Error"}

\* the UI thread handles Select on Run in ShowingResult
RunStep ==
    /\ PollKeyStep
    /\ app.state.kind = "ShowingResult"
    /\ key_to_action(Head(queue).key).a = "Select"
    /\ result_actions[app.result_selected + 1] = "RunCommand"

\* C13: Select on Run in ShowingResult{text} clears the running flag with
\* nothing executed yet; from then on the only step of the UI thread is the
\* exit of the loop, which executes exactly the text shown, and nothing is
\* executed after that.
C13_RunExecutesShownText ==
    [][/\ RunStep =>
             /\ ~app'.running
             /\ pc' = "top"
             /\ UNCHANGED <<app.state, app.result_selected, executed>>
       /\ (~app.running /\ should_run_command(app) /\ pc = "top") =>
             \/ /\ pc' = "done"
                /\ executed' = executed \o <<app.state.text>>
             \/ UNCHANGED <<app, pc, executed>>
       /\ pc = "done" => UNCHANGED executed
       /\ Len(executed') <= 1]_vars

\* C13 witness: the loop ended after Run and the text shown was executed
C13_Witness ==
    /\ pc = "done"
    /\ app.state.kind = "ShowingResult"
    /\ executed = <<app.state.text>>

\* the selected row of the settings menu is a row of the list, not a separator
SettingsSelectionValid ==
    /\ app.settings_selected \in 0..(Len(app.settings_items) - 1)
    /\ ~IsSeparator(app.settings_items[app.settings_selected + 1])

\* C14: in SettingsMenu the selected row is always within the list and never
\* a separator, also after the items are rebuilt; Up never moves the selection
\* down, Down never moves it up and Select never moves it, so there is no wrap
\* from the last row to the first or from the first to the last.
C14_SettingsSelectionNeverOnSeparator ==
    [][\A k \in Keys :
          SettingsKey(k) =>
             /\ SettingsSelectionValid
             /\ SettingsSelectionValid'
             /\ key_to_action(k).a = "Up" =>
                   app'.settings_selected <= app.settings_selected
             /\ key_to_action(k).a = "Down" =>
                   app'.settings_selected >= app.settings_selected
             /\ key_to_action(k).a \notin {"Up", "Down"} =>
                   app'.settings_selected = app.settings_selected]_vars

\* C14 witness: the selection reached the last row after the items were
\* rebuilt by Disable all
C14_Witness ==
    /\ app.state.kind = "SettingsMenu"
    /\ app.settings_selected = Len(app.settings_items) - 1
    /\ \A i \in 1..Len(PrivacyKeys) : ~is_enabled(env.settings, PrivacyKeys[i])

\* the transcript is older than the timeout
StaleTranscript ==
    IsSome(env.session_file) /\ env.session_age > SESSION_TIMEOUT

C15_DownUpReachNearestRow ==
    probe.fn = "handle_settings_key" =>
        LET items == probe.args[1]
            sel == probe.args[2]
            ks == probe.args[3]
            Below == {j \in Selectable(items) : j > sel}
            Above == {j \in Selectable(items) : j < sel}
        IN /\ ks = <<KeyEv("Down")>> =>
                 probe.ret = IF Below = {} THEN sel
                             ELSE CHOOSE j \in Below : \A i \in Below : j <= i
           /\ ks = <<KeyEv("Up")>> =>
                 probe.ret = IF Above = {} THEN sel
                             ELSE CHOOSE j \in Above : \A i \in Above : j >= i
           /\ (items = ExampleItems /\ sel = 0
                  /\ ks = <<KeyEv("Down"), KeyEv("Down")>>) =>
                 probe.ret = 4 /\ items[probe.ret + 1].kind = "Back"

\* C15 witness: two Downs from ChangeProvider in the list of five rows
C15_Witness ==
    /\ probe.fn = "handle_settings_key"
    /\ probe.args = <<ExampleItems, 0, <<KeyEv("Down"), KeyEv("Down")>>>>
    /\ probe.ret = 4

\* the history of the example: ls -la, git status, ls -la
ExampleHistory ==
    HistoryFile(<<<<"ls -la">>, <<"git status">>, <<"ls -la">>>>)

\* the index of the last line of ls equal to x
LastIndex(ls, x) ==
    CHOOSE j \in 1..Len(ls) : ls[j] = x /\ \A i \in (j + 1)..Len(ls) : ls[i] # x

\* C16: get_recent_prompts(n) returns at most n entries, each a line of the
\* log, no two equal, a line whose last occurrence is later in the log before
\* a line whose last occurrence is earlier.
C16_RecentPromptsNewestFirstDistinct ==
    probe.fn = "get_recent_prompts" =>
        LET h == probe.args[1]
            n == probe.args[2]
            r == probe.ret
            ls == IF IsSome(h) THEN Lines(Unwrap(h)) ELSE <<>>
        IN /\ Len(r) <= n
           /\ \A i \in 1..Len(r) : \E j \in 1..Len(ls) : ls[j] = r[i]
           /\ \A i, j \in 1..Len(r) :
                 i < j => /\ r[i] # r[j]
                          /\ LastIndex(ls, r[i]) > LastIndex(ls, r[j])

\* C16 witness: a log with a repeated line and more distinct lines than the
\* limit
C16_Witness ==
    /\ probe.fn = "get_recent_prompts"
    /\ probe.args = <<ExampleHistory, 1>>
    /\ Len(probe.ret) = 1

\* C17 as claimed: for the lines ls -la, git status, ls -la,
\* get_recent_prompts(10) returns git status, ls -la.
C17_ExampleReturnsGitStatusFirst ==
    (probe.fn = "get_recent_prompts" /\ probe.args = <<ExampleHistory, 10>>) =>
        probe.ret = <<<<"git status">>, <<"ls -la">>>>

\* C17 amended: for the lines ls -la, git status, ls -la,
\* get_recent_prompts(10) returns ls -la, git status (the newest line first).
C17_ExampleReturnsNewestFirst ==
    (probe.fn = "get_recent_prompts" /\ probe.args = <<ExampleHistory, 10>>) =>
        probe.ret = <<<<"ls -la">>, <<"git status">>>>

\* C17 witness: get_recent_prompts(10) was called on the example
C17_Witness ==
    /\ probe.fn = "get_recent_prompts"
    /\ probe.args = <<ExampleHistory, 10>>
    /\ Len(probe.ret) = 2

\* C19: when codex exits successfully and the output file is absent, the
\* result is an error.
C19_MissingOutputFileIsError ==
    (probe.fn = "run_codex_query" /\ probe.args[1] /\ probe.args[2] = None) =>
        probe.ret.kind = "Err"

\* C19 witness: codex exited successfully without an output file
C19_Witness ==
    /\ probe.fn = "run_codex_query"
    /\ probe.args = <<TRUE, None>>
    /\ probe.ret = Err(<<"Codex did not produce output">>)

C22_AutoPrefersClaudeThenCodex ==
    (probe.fn = "get_current_provider" /\ probe.args[1] = "auto") =>
        LET path == probe.args[3]
        IN /\ "claude" \in path =>
                 probe.ret.ok /\ probe.ret.provider = "Claude"
           /\ ("claude" \notin path /\ "codex" \in path) =>
                 probe.ret.ok /\ probe.ret.provider = "Codex"
           /\ path = {} => ~probe.ret.ok /\ probe.ret.text # <<>>

\* C22 witness: auto with only codex in PATH
C22_Witness ==
    /\ probe.fn = "get_current_provider"
    /\ probe.args = <<"auto", "", {"codex"}>>
    /\ probe.ret.provider = "Codex"

\* C23: "claude" (resp. "codex") resolves to that tool when it is in PATH and
\* fails otherwise, also when the other tool is in PATH; "custom" fails when
\* custom_provider_cmd is empty and resolves to that command otherwise;
\* "mock" resolves to Mock.
C23_ExplicitProviderNeverFallsBack ==
    probe.fn = "get_current_provider" =>
        LET setting == probe.args[1]
            cmd == probe.args[2]
            path == probe.args[3]
            r == probe.ret
        IN /\ setting = "claude" =>
                 IF "claude" \in path THEN r.ok /\ r.provider = "Claude"
                 ELSE ~r.ok
           /\ setting = "codex" =>
                 IF "codex" \in path THEN r.ok /\ r.provider = "Codex"
                 ELSE ~r.ok
           /\ setting = "custom" =>
                 IF cmd = "" THEN ~r.ok
                 ELSE r.ok /\ r.provider = "Custom" /\ r.cmd = cmd
           /\ setting = "mock" => r.ok /\ r.provider = "Mock"

\* C23 witness: "claude" with only codex in PATH fails
C23_Witness ==
    /\ probe.fn = "get_current_provider"
    /\ probe.args = <<"claude", "", {"codex"}>>
    /\ probe.ret = Unresolved(<<"claude not found in PATH">>)

\* the result the worker that ends in this step left in the channel
DeliveredNow == Unwrap(app'.query_receiver).buf

\* C24: the worker's result is a result of the provider resolved from the
\* settings as they are when the query runs, also after Change provider has
\* changed them: the result of the resolution when it fails, else a result of
\* the tool it names.
C24_ProviderResolvedPerQuery ==
    [][WorkerStep =>
          LET r == get_current_provider(env.settings, env.path)
          IN /\ IsSome(app'.query_receiver)
             /\ ~r.ok => DeliveredNow = Some(Err(r.text))
             /\ (r.ok /\ r.provider = "Claude") =>
                   DeliveredNow \in {Some(x) : x \in run_claude_query}
             /\ (r.ok /\ r.provider = "Codex") =>
                   DeliveredNow \in {None} \cup
                       {Some(CodexResult(st, f)) :
                           st \in BOOLEAN, f \in CodexFiles}
                       \cup {Some(Err(<<"Failed to spawn codex process">>))}
             /\ (r.ok /\ r.provider = "Mock") =>
                   /\ IsSome(DeliveredNow)
                   /\ Unwrap(DeliveredNow).kind = "Ok"
                   /\ Head(Unwrap(DeliveredNow).text)
                         = "echo 'Mock response for:"]_vars

\* C24 witness: Change provider took the setting from auto to codex, and the
\* query submitted after it failed for codex missing from PATH
C24_Witness ==
    /\ env.settings["ai_provider"] = "codex"
    /\ env.path = {"claude"}
    /\ app.state = Error(<<"codex not found in PATH">>)

\* the UI thread handles Select on Clear Conversation in the main menu
ClearStep ==
    /\ PollKeyStep
    /\ app.state.kind = "MainMenu"
    /\ key_to_action(Head(queue).key).a = "Select"
    /\ menu_items[app.selected_index + 1] = "ClearConversation"

\* C26: Select on Clear Conversation that removes the file leaves the state
\* MainMenu, no transcript and the turn counter 0; a transcript comes back
\* only when a query succeeds, and a query submitted while there is none
\* gets a prompt without a Previous Conversation block.
C26_ClearRemovesTranscript ==
    [][/\ (ClearStep /\ fault' = "none") =>
             /\ app'.state = St("MainMenu")
             /\ env'.session_file = None
             /\ app'.session_turns = 0
       /\ (env.session_file = None /\ env'.session_file # None) => SuccessStep
       /\ (SubmitStep /\ env.session_file = None /\ fault' = "none") =>
             \A wk \in workers' \ workers :
                ~Contains(wk.prompt, <<"## Previous Conversation:">>)]_vars

\* C26 witness: the session started beside a transcript, Clear removed it,
\* and the next query is running
C26_Witness ==
    /\ Loading
    /\ workers # {}
    /\ spawned = 1
    /\ app.settings_items = <<>>
    /\ env.session_file = None
    /\ app.session_turns = 0
    /\ IsSome(env.history_file)
    /\ app.recent_prompts # <<>>

\* the action the key at the head of the queue stands for in this state
KeyActionNow ==
    IF app.state.kind = "PromptInput"
    THEN key_to_input_action(Head(queue).key)
    ELSE key_to_action(Head(queue).key)

\* C25: in every state but Loading, Quit clears the running flag, and the
\* loop then ends at its next test; Back leads to MainMenu from PromptInput,
\* ShowingResult, ContextView, SettingsMenu, RecentPrompts and Error, and
\* leaves the state as it is in MainMenu.
C25_BackAndQuitUniform ==
    [][/\ ((PollKeyStep /\ ~Loading) /\ KeyActionNow.a = "Quit") =>
             /\ ~app'.running
             /\ app'.state = app.state
             /\ pc' = "top"
       /\ (pc = "top" /\ ~app.running /\ pc' # pc) => pc' = "done"
       /\ ((PollKeyStep /\ ~Loading) /\ KeyActionNow.a = "Back") =>
             /\ app'.state = St("MainMenu")
             /\ app'.running
             /\ app.state.kind = "MainMenu" => app' = app]_vars

\* C25 witness: the Error state was left for MainMenu
C25_Witness ==
    /\ app.state = St("MainMenu")
    /\ app.pending_query = None
    /\ spawned = 1
    /\ workers = {}
    /\ app.last_response = None
    /\ app.running

\* the index of the token t in the text s (0 when it is not there)
IndexOf(s, t) ==
    IF \E i \in 1..Len(s) : s[i] = t
    THEN CHOOSE i \in 1..Len(s) : s[i] = t /\ \A j \in 1..(i - 1) : s[j] # t
    ELSE 0

C28_PromptIsPreambleContextHistoryQuery ==
    probe.fn = "build_full_prompt" =>
        LET q == probe.args[1]
            c == probe.args[2]
            h == probe.args[3]
            r == probe.ret
            n == Len(Preamble) + Len(c)
            user == <<"\n", "## User:", " ">> \o q \o <<"\n">>
            hasBlock == IsSome(h) /\ Unwrap(h) # <<>>
            rest == SubSeq(r, n + 1, Len(r))
        IN /\ SubSeq(r, 1, Len(Preamble)) = Preamble
           /\ SubSeq(r, Len(Preamble) + 1, n) = c
           /\ IndexOf(r, "## Previous Conversation:") # 0 <=> hasBlock
           /\ hasBlock =>
                 rest = <<"\n", "## Previous Conversation:", "\n">>
                            \o Unwrap(h) \o user
           /\ ~hasBlock => rest = user
           /\ Contains(r, Preamble)
           /\ Contains(r, q)

\* C28 witness: the prompt of the test of build_full_prompt (no history), and
\* a prompt built with a history
C28_Witness ==
    /\ probe.fn = "build_full_prompt"
    /\ IsSome(probe.args[3])
    /\ Unwrap(probe.args[3]) # <<>>
    /\ probe.args[1] = <<"list files">>
    /\ Contains(probe.ret, <<"## Previous Conversation:", "\n", "## User:">>)

\* C29: whenever the state becomes PromptInput, the text buffer is empty and
\* the cursor index is 0.
C29_PromptInputStartsEmpty ==
    [][(app'.state.kind = "PromptInput" /\ app.state.kind # "PromptInput") =>
          /\ app'.input = <<>>
          /\ app'.cursor_position = 0
          /\ (PollKeyStep /\ ~Loading)
          /\ KeyActionNow.a = "Select"
          /\ app.state.kind \in {"MainMenu", "ShowingResult"}]_vars

\* C29 witness: Follow-up after a query whose text is still known
C29_Witness ==
    /\ app.state.kind = "PromptInput"
    /\ app.input = <<>>
    /\ IsSome(app.last_response)
    /\ spawned = 1

\* C30: the text of every query started is not empty after trimming; Select
\* in PromptInput on a buffer that is empty after trimming, and Select in
\* RecentPrompts on an empty list, start no query and change nothing.
C30_OnlyNonEmptyQueriesStart ==
    [][/\ spawned' > spawned =>
             /\ IsSome(app'.pending_query)
             /\ Trim(Unwrap(app'.pending_query)) # <<>>
       /\ (/\ (PollKeyStep /\ ~Loading)
           /\ KeyActionNow.a = "Select"
           /\ \/ app.state.kind = "PromptInput" /\ Trim(app.input) = <<>>
              \/ app.state.kind = "RecentPrompts" /\ app.recent_prompts = <<>>) =>
             UNCHANGED <<app, env, workers, spawned, fault>>]_vars

\* C30 witness: the prompt input holds a blank after Select was pressed on it
C30_Witness ==
    /\ app.state.kind = "PromptInput"
    /\ app.input = <<" ">>
    /\ pc = "top"
    /\ nkeys >= 3
    /\ queue = <<>>
    /\ spawned = 0

\* C31: while the worker has neither sent nor dropped its sender, every poll
\* of the UI thread returns, advances the spinner and leaves the state
\* Loading, and ends no worker; once the worker has sent, the next poll
\* leaves Loading.
C31_UiNeverBlocksOnWorker ==
    [][/\ (CheckStep /\ ChannelEmpty) =>
             /\ app'.state.kind = "Loading"
             /\ app'.spinner_frame = (app.spinner_frame + 1) % 10
             /\ pc' = "poll"
             /\ workers' = workers
       /\ (CheckStep /\ (Delivered("Ok") \/ Delivered("Err"))) =>
             app'.state.kind # "Loading"]_vars

\* the UI thread handles Quit, or Select on Exit in the main menu
QuitStep ==
    /\ PollKeyStep
    /\ ~Loading
    /\ \/ KeyActionNow.a = "Quit"
       \/ /\ app.state.kind = "MainMenu"
          /\ KeyActionNow.a = "Select"
          /\ menu_items[app.selected_index + 1] = "Exit"

\* C36: a command is executed only at the exit of a loop that Select on Run
\* ended: a loop ended by Quit in any state, or by Exit in the main menu, is
\* left in a state whose exit executes nothing.
C36_OnlyRunExecutes ==
    [][/\ QuitStep =>
             /\ ~app'.running
             /\ ~(should_run_command(app') /\ IsSome(app'.last_response))
       /\ executed' # executed =>
             /\ pc = "top"
             /\ ~app.running
             /\ should_run_command(app)]_vars

C32_OutputFileGoneAfterDispatch ==
    probe.fn = "CodexDispatch" =>
        /\ probe.ret.file = None
        /\ probe.args[5] = None => probe.ret.result.kind = "Err"

\* C34: the transcript is append-only until it is cleared or expires: the
\* step that observes a successful query writes the old content followed by
\* one (user turn, assistant turn) pair of that query, and every other change
\* of the transcript is its removal.
C34_TranscriptAppendOnly ==
    [][LET old == IF IsSome(env.session_file)
                  THEN Unwrap(env.session_file) ELSE <<>>
           pair == <<"## User:", " ">> \o Unwrap(app.pending_query)
                   \o <<"\n", "\n", "## Assistant:", "\n">>
                   \o DeliveredText \o <<"\n", "\n">>
       IN /\ (SuccessStep /\ fault' # "append_to_session") =>
                env'.session_file = Some(old \o pair)
          /\ env'.session_file # env.session_file =>
                \/ env'.session_file = None
                \/ /\ SuccessStep
                   /\ SubSeq(Unwrap(env'.session_file), 1, Len(old)) = old
                   /\ CountToken(Unwrap(env'.session_file), "## Assistant:")
                         = CountToken(old, "## Assistant:") + 1]_vars

\* C34 witness: the second successful query of the session was appended after
\* the first
C34_Witness ==
    /\ app.state.kind = "ShowingResult"
    /\ spawned = 2
    /\ IsSome(env.session_file)
    /\ CountToken(Unwrap(env.session_file), "## Assistant:") = 2

\* C35: a transcript older than the timeout is absent for every access, the
\* append at the completion of a query included: the step that observes a
\* successful query beside an expired transcript leaves a transcript that
\* holds the turn of that query and nothing else, and get_session_history
\* never returns a transcript older than the timeout.
C35_ExpiredTranscriptNeverExtended ==
    [][LET pair == <<"## User:", " ">> \o Unwrap(app.pending_query)
                   \o <<"\n", "\n", "## Assistant:", "\n">>
                   \o DeliveredText \o <<"\n", "\n">>
       IN /\ (SuccessStep /\ StaleTranscript /\ fault' # "append_to_session")
                => env'.session_file = Some(pair)
          /\ StaleTranscript =>
                get_session_history(env.session_file, env.session_age) = None]_vars

\* C39: whenever the state is not Loading, the turn counter of the App is the
\* number of (user, assistant) turns in the history get_session_history
\* would return now, and 0 when there is none (no transcript, or an expired
\* one).
C39_TurnCounterMatchesTranscript ==
    (Alive /\ ~Loading) =>
        LET h == get_session_history(env.session_file, env.session_age)
        IN app.session_turns =
              IF IsSome(h) THEN CountToken(Unwrap(h), "## Assistant:") ELSE 0

\* C38: every selection index is an index of its list whenever the list is
\* indexed: the main menu's and the result actions' always, the settings'
\* in SettingsMenu, and the recent prompts' in RecentPrompts unless the list
\* is empty, when the index stays 0.
C38_SelectionIndicesInRange ==
    /\ app.selected_index \in 0..(Len(menu_items) - 1)
    /\ app.result_selected \in 0..(Len(result_actions) - 1)
    /\ app.state.kind = "SettingsMenu" =>
          app.settings_selected \in 0..(Len(app.settings_items) - 1)
    /\ app.state.kind = "RecentPrompts" =>
          IF app.recent_prompts = <<>> THEN app.prompts_selected = 0
          ELSE app.prompts_selected \in 0..(Len(app.recent_prompts) - 1)

\* C38 witness: keys were handled in RecentPrompts on an empty list
C38_Witness ==
    /\ app.state.kind = "RecentPrompts"
    /\ app.recent_prompts = <<>>
    /\ app.prompts_selected = 0
    /\ nkeys >= 4
    /\ queue = <<>>
    /\ pc = "top"

\* C37: in PromptInput, after any sequence of editing actions over characters
\* of one or more bytes, the cursor is between 0 and the byte length of the
\* buffer and lies on a character boundary, and no editing action panics.
C37_CursorOnCharBoundary ==
    /\ fault # "panic"
    /\ app.state.kind = "PromptInput" =>
          /\ app.cursor_position \in 0..StrLen(app.input)
          /\ is_char_boundary(app.input, app.cursor_position)

\* C40: when two instances in one working directory have each completed a
\* successful query, the transcript holds the turn of each and the prompt
\* history the prompt of each, whatever the order of their reads and writes.
C40_NoAppendLostBetweenInstances ==
    (\A i \in {1, 2} : app[i].pc = "done") =>
        \A i \in {1, 2} :
            /\ Contains(Unwrap(env.session_file),
                        <<"## User:", " ">> \o app[i].query)
            /\ Contains(Unwrap(env.history_file), app[i].query \o <<"\n">>)

=============================================================================
